---- MODULE Spec2Model ----
(***************************************************************************)
(* A model of the teeny-qoi codec: the Encoder (process_pixel,             *)
(* image_to_vec), the chunk wire format, the SliceReader chunk parser and  *)
(* the ImageDecoder.  Bytes are integers 0..255; u8/i8 arithmetic is       *)
(* modelled with explicit wraparound.                                      *)
(***************************************************************************)
EXTENDS Integers, Sequences, FiniteSets, TLC

VARIABLES pc, encoder, image, output, chunks, out, input, started, reader,
          decoder, chunk, item, pixels, extra

vars == <<pc, encoder, image, output, chunks, out, input, started, reader,
          decoder, chunk, item, pixels, extra>>

(***************************************************************************)
(* Bounds of the model.                                                    *)
(***************************************************************************)
MaxPixels == 3
MaxExtraPulls == 2

(***************************************************************************)
(* Fixed-width integer helpers.                                            *)
(***************************************************************************)
AsU8(i) == i % 256
AsI8(u) == IF (u % 256) >= 128 THEN (u % 256) - 256 ELSE u % 256
u8_wrapping_sub(a, b) == (a - b) % 256
i8_wrapping_sub(a, b) == AsI8(a - b)
u8_wrapping_mul(a, b) == (a * b) % 256
u8_wrapping_add(a, b) == (a + b) % 256
\* u32 product; the headers of the model keep it far below 2^31, where
\* neither the code nor the model checker wraps.
u32_mul(a, b) == a * b

RECURSIVE BitOr(_, _)
BitOr(a, b) ==
  IF a = 0 THEN b
  ELSE IF b = 0 THEN a
  ELSE (IF a % 2 = 1 \/ b % 2 = 1 THEN 1 ELSE 0) + 2 * BitOr(a \div 2, b \div 2)

RECURSIVE BitAnd(_, _)
BitAnd(a, b) ==
  IF a = 0 \/ b = 0 THEN 0
  ELSE (IF a % 2 = 1 /\ b % 2 = 1 THEN 1 ELSE 0) + 2 * BitAnd(a \div 2, b \div 2)

RECURSIVE Pow2(_)
Pow2(n) == IF n = 0 THEN 1 ELSE 2 * Pow2(n - 1)
Shl8(a, n) == (a * Pow2(n)) % 256
Shr8(a, n) == a \div Pow2(n)

(***************************************************************************)
(* lib.rs: tags                                                            *)
(***************************************************************************)
INDEX == 0
DIFF == 64
LUMA == 128
RUN == 192
RGB == 254
RGBA == 255
QOI_MAGIC == <<113, 111, 105, 102>>
BYTESTREAM_END == <<0, 0, 0, 0, 0, 0, 0, 1>>
MASK_2 == 192
INVERSE_MASK_2 == 63
DIFF_MASK == 3
LUMA_MASK == 15

(***************************************************************************)
(* lib.rs: Header                                                          *)
(***************************************************************************)
Header_rgb(width, height) ==
  [width |-> width, height |-> height, channels |-> 3, colorspace |-> 0]
Header_rgba(width, height) ==
  [width |-> width, height |-> height, channels |-> 4, colorspace |-> 0]

U32BigEndian(n) ==
  <<(n \div 16777216) % 256, (n \div 65536) % 256, (n \div 256) % 256, n % 256>>
\* Header_as_bytes with little-endian width and height.
Header_as_bytes_le(h) ==
  <<h.width % 256, (h.width \div 256) % 256, (h.width \div 65536) % 256,
    (h.width \div 16777216) % 256,
    h.height % 256, (h.height \div 256) % 256, (h.height \div 65536) % 256,
    (h.height \div 16777216) % 256,
    h.channels, h.colorspace>>

Header_as_bytes(h) ==
  U32BigEndian(h.width) \o U32BigEndian(h.height) \o <<h.channels, h.colorspace>>

(***************************************************************************)
(* lib.rs: RgbaPixel                                                       *)
(***************************************************************************)
RgbaPixel(r, g, b, a) == [r |-> r, g |-> g, b |-> b, a |-> a]

\* index_position with a wrong multiplier for the alpha channel.
index_position_13(p) ==
  LET r == u8_wrapping_mul(p.r, 3)
      g == u8_wrapping_mul(p.g, 5)
      b == u8_wrapping_mul(p.b, 7)
      a == u8_wrapping_mul(p.a, 13)
  IN  u8_wrapping_add(u8_wrapping_add(u8_wrapping_add(r, g), b), a) % 64

index_position(p) ==
  LET r == u8_wrapping_mul(p.r, 3)
      g == u8_wrapping_mul(p.g, 5)
      b == u8_wrapping_mul(p.b, 7)
      a == u8_wrapping_mul(p.a, 11)
  IN  u8_wrapping_add(u8_wrapping_add(u8_wrapping_add(r, g), b), a) % 64

\* in_diff_range with the upper bound of dr one too high.
in_diff_range_wide(dr, dg, db) ==
  (dr > -3 /\ dr < 3) /\ (dg > -3 /\ dg < 2) /\ (db > -3 /\ db < 2)

in_diff_range(dr, dg, db) ==
  (dr > -3 /\ dr < 2) /\ (dg > -3 /\ dg < 2) /\ (db > -3 /\ db < 2)

in_luma_range(dr_dg, dr_db, dg) ==
  (dr_dg > -9 /\ dr_dg < 8) /\ (dg > -33 /\ dg < 32) /\ (dr_db > -9 /\ dr_db < 8)

(***************************************************************************)
(* lib.rs: Chunk and its serialization (impl_chunk_as_bytes)               *)
(***************************************************************************)
Rgb(r, g, b) == [t |-> "Rgb", r |-> r, g |-> g, b |-> b]
Rgba(r, g, b, a) == [t |-> "Rgba", r |-> r, g |-> g, b |-> b, a |-> a]
Index(idx) == [t |-> "Index", idx |-> idx]
Diff(dr, dg, db) == [t |-> "Diff", dr |-> dr, dg |-> dg, db |-> db]
Luma(dg, dr_dg, db_dg) == [t |-> "Luma", dg |-> dg, dr_dg |-> dr_dg, db_dg |-> db_dg]
Run(length) == [t |-> "Run", length |-> length]

\* impl_chunk_as_bytes! storing the run length without its bias of -1.
impl_chunk_as_bytes_run_unbiased(c) ==
  CASE c.t = "Rgb" -> <<RGB, c.r, c.g, c.b>>
    [] c.t = "Rgba" -> <<RGBA, c.r, c.g, c.b, c.a>>
    [] c.t = "Index" -> <<BitOr(INDEX, c.idx)>>
    [] c.t = "Diff" ->
         <<BitOr(BitOr(BitOr(DIFF, Shl8(AsU8(c.dr + 2), 4)),
                       Shl8(AsU8(c.dg + 2), 2)),
                 AsU8(c.db + 2))>>
    [] c.t = "Luma" ->
         <<BitOr(LUMA, AsU8(c.dg + 32)),
           BitOr(Shl8(AsU8(c.dr_dg + 8), 4), AsU8(c.db_dg + 8))>>
    [] c.t = "Run" -> <<BitOr(RUN, AsU8(c.length))>>

impl_chunk_as_bytes(c) ==
  CASE c.t = "Rgb" -> <<RGB, c.r, c.g, c.b>>
    [] c.t = "Rgba" -> <<RGBA, c.r, c.g, c.b, c.a>>
    [] c.t = "Index" -> <<BitOr(INDEX, c.idx)>>
    [] c.t = "Diff" ->
         <<BitOr(BitOr(BitOr(DIFF, Shl8(AsU8(c.dr + 2), 4)),
                       Shl8(AsU8(c.dg + 2), 2)),
                 AsU8(c.db + 2))>>
    [] c.t = "Luma" ->
         <<BitOr(LUMA, AsU8(c.dg + 32)),
           BitOr(Shl8(AsU8(c.dr_dg + 8), 4), AsU8(c.db_dg + 8))>>
    [] c.t = "Run" -> <<BitOr(RUN, AsU8(c.length - 1))>>

RECURSIVE write_chunks(_)
write_chunks(cs) ==
  IF cs = <<>> THEN <<>>
  ELSE impl_chunk_as_bytes(Head(cs)) \o write_chunks(Tail(cs))

(***************************************************************************)
(* encoder.rs: Encoder                                                     *)
(***************************************************************************)
Encoder_new(header) ==
  [previously_seen |-> [i \in 0..63 |-> RgbaPixel(0, 0, 0, 0)],
   previous |-> RgbaPixel(0, 0, 0, 255),
   run |-> 0,
   index |-> 0,
   length |-> u32_mul(header.width, header.height),
   header |-> header]

\* new_pixel_chunk trying Diff before it compares the alpha channels.
new_pixel_chunk_diff_first(previous, pixel) ==
  LET dr == AsI8(u8_wrapping_sub(pixel.r, previous.r))
      dg == AsI8(u8_wrapping_sub(pixel.g, previous.g))
      db == AsI8(u8_wrapping_sub(pixel.b, previous.b))
      dr_dg == i8_wrapping_sub(dr, dg)
      db_dg == i8_wrapping_sub(db, dg)
  IN  IF in_diff_range(dr, dg, db) THEN Diff(dr, dg, db)
      ELSE IF pixel.a # previous.a THEN Rgba(pixel.r, pixel.g, pixel.b, pixel.a)
      ELSE IF in_luma_range(dr_dg, db_dg, dg) THEN Luma(dg, dr_dg, db_dg)
      ELSE Rgb(pixel.r, pixel.g, pixel.b)

\* The chunk for a pixel that is neither a repeat nor a cache hit.
new_pixel_chunk(previous, pixel) ==
  IF pixel.a = previous.a
  THEN LET dr == AsI8(u8_wrapping_sub(pixel.r, previous.r))
           dg == AsI8(u8_wrapping_sub(pixel.g, previous.g))
           db == AsI8(u8_wrapping_sub(pixel.b, previous.b))
           dr_dg == i8_wrapping_sub(dr, dg)
           db_dg == i8_wrapping_sub(db, dg)
       IN  IF in_diff_range(dr, dg, db) THEN Diff(dr, dg, db)
           ELSE IF in_luma_range(dr_dg, db_dg, dg) THEN Luma(dg, dr_dg, db_dg)
           ELSE Rgb(pixel.r, pixel.g, pixel.b)
  ELSE Rgba(pixel.r, pixel.g, pixel.b, pixel.a)

\* run_flush without the cap.
run_flush_end_only(run, index, length) == index = length

\* run_flush with the cap one too high.
run_flush_late(run, index, length) == run = 63 \/ index = length

\* The run is flushed when it reaches the cap or at the last pixel.
run_flush(run, index, length) == run = 62 \/ index = length

\* cache_hit comparing the slot with the last pixel instead of the new one.
cache_hit_previous(self, pixel, index_pos) ==
  self.previously_seen[index_pos] = self.previous

\* The pixel is the resident of its cache slot.
cache_hit(self, pixel, index_pos) == self.previously_seen[index_pos] = pixel

\* process_pixel leaving the last pixel as it was on a cache hit.
process_pixel_hit_keeps_previous(self, pixel) ==
  LET index == self.index + 1 IN
  IF pixel = self.previous
  THEN LET run == self.run + 1
           flush == run_flush(run, index, self.length)
       IN  [self |-> [self EXCEPT !.index = index,
                                  !.run = IF flush THEN 0 ELSE run,
                                  !.previous = pixel],
            output |-> IF flush THEN <<Run(run)>> ELSE <<>>]
  ELSE LET pending == IF self.run > 0 THEN <<Run(self.run)>> ELSE <<>>
           index_pos == index_position(pixel)
       IN  IF cache_hit(self, pixel, index_pos)
           THEN [self |-> [self EXCEPT !.index = index, !.run = 0],
                 output |-> Append(pending, Index(index_pos))]
           ELSE [self |-> [self EXCEPT !.index = index, !.run = 0,
                                       !.previously_seen[index_pos] = pixel,
                                       !.previous = pixel],
                 output |-> Append(pending, new_pixel_chunk(self.previous, pixel))]

\* process_pixel resetting the run counter on a differing pixel without
\* pushing the pending Run.
process_pixel_drop_pending(self, pixel) ==
  LET index == self.index + 1 IN
  IF pixel = self.previous
  THEN LET run == self.run + 1
           flush == run_flush(run, index, self.length)
       IN  [self |-> [self EXCEPT !.index = index,
                                  !.run = IF flush THEN 0 ELSE run,
                                  !.previous = pixel],
            output |-> IF flush THEN <<Run(run)>> ELSE <<>>]
  ELSE LET index_pos == index_position(pixel)
       IN  IF cache_hit(self, pixel, index_pos)
           THEN [self |-> [self EXCEPT !.index = index, !.run = 0,
                                       !.previous = pixel],
                 output |-> <<Index(index_pos)>>]
           ELSE [self |-> [self EXCEPT !.index = index, !.run = 0,
                                       !.previously_seen[index_pos] = pixel,
                                       !.previous = pixel],
                 output |-> <<new_pixel_chunk(self.previous, pixel)>>]

\* process_pixel writing the pixel to the cache before it tests for a repeat.
process_pixel_cache_first(self, pixel) ==
  LET index == self.index + 1
      index_pos == index_position(pixel)
  IN
  IF pixel = self.previous
  THEN LET run == self.run + 1
           flush == run_flush(run, index, self.length)
       IN  [self |-> [self EXCEPT !.index = index,
                                  !.run = IF flush THEN 0 ELSE run,
                                  !.previously_seen[index_pos] = pixel,
                                  !.previous = pixel],
            output |-> IF flush THEN <<Run(run)>> ELSE <<>>]
  ELSE LET pending == IF self.run > 0 THEN <<Run(self.run)>> ELSE <<>>
       IN  IF cache_hit(self, pixel, index_pos)
           THEN [self |-> [self EXCEPT !.index = index, !.run = 0,
                                       !.previous = pixel],
                 output |-> Append(pending, Index(index_pos))]
           ELSE [self |-> [self EXCEPT !.index = index, !.run = 0,
                                       !.previously_seen[index_pos] = pixel,
                                       !.previous = pixel],
                 output |-> Append(pending, new_pixel_chunk(self.previous, pixel))]

\* process_pixel pushing the pending run after the chunk of the new pixel.
process_pixel_run_last(self, pixel) ==
  LET index == self.index + 1 IN
  IF pixel = self.previous
  THEN LET run == self.run + 1
           flush == run_flush(run, index, self.length)
       IN  [self |-> [self EXCEPT !.index = index,
                                  !.run = IF flush THEN 0 ELSE run,
                                  !.previous = pixel],
            output |-> IF flush THEN <<Run(run)>> ELSE <<>>]
  ELSE LET pending == IF self.run > 0 THEN <<Run(self.run)>> ELSE <<>>
           index_pos == index_position(pixel)
       IN  IF cache_hit(self, pixel, index_pos)
           THEN [self |-> [self EXCEPT !.index = index, !.run = 0,
                                       !.previous = pixel],
                 output |-> <<Index(index_pos)>> \o pending]
           ELSE [self |-> [self EXCEPT !.index = index, !.run = 0,
                                       !.previously_seen[index_pos] = pixel,
                                       !.previous = pixel],
                 output |-> <<new_pixel_chunk(self.previous, pixel)>> \o pending]

\* process_pixel: the encoder after the call and the chunks it returns.
process_pixel(self, pixel) ==
  LET index == self.index + 1 IN
  IF pixel = self.previous
  THEN LET run == self.run + 1
           flush == run_flush(run, index, self.length)
       IN  [self |-> [self EXCEPT !.index = index,
                                  !.run = IF flush THEN 0 ELSE run,
                                  !.previous = pixel],
            output |-> IF flush THEN <<Run(run)>> ELSE <<>>]
  ELSE LET pending == IF self.run > 0 THEN <<Run(self.run)>> ELSE <<>>
           index_pos == index_position(pixel)
       IN  IF cache_hit(self, pixel, index_pos)
           THEN [self |-> [self EXCEPT !.index = index, !.run = 0,
                                       !.previous = pixel],
                 output |-> Append(pending, Index(index_pos))]
           ELSE [self |-> [self EXCEPT !.index = index, !.run = 0,
                                       !.previously_seen[index_pos] = pixel,
                                       !.previous = pixel],
                 output |-> Append(pending, new_pixel_chunk(self.previous, pixel))]

(***************************************************************************)
(* Option<T>: None is the empty sequence, Some(x) the one-element sequence.*)
(***************************************************************************)
None == <<>>
Some(x) == <<x>>

(***************************************************************************)
(* decoder.rs: SliceReader                                                 *)
(***************************************************************************)
Header_read_from(bytes) ==
  [width |-> bytes[1] * 16777216 + bytes[2] * 65536 + bytes[3] * 256 + bytes[4],
   height |-> bytes[5] * 16777216 + bytes[6] * 65536 + bytes[7] * 256 + bytes[8],
   channels |-> bytes[9],
   colorspace |-> bytes[10]]

\* start: slicing inner[0..4] and inner[4..14] panics when the buffer is
\* shorter than the slice; otherwise None on a wrong magic, Some on success.
SliceReader_start(inner) ==
  IF Len(inner) < 4 THEN [kind |-> "panic"]
  ELSE IF SubSeq(inner, 1, 4) # QOI_MAGIC THEN [kind |-> "None"]
  ELSE IF Len(inner) < 14 THEN [kind |-> "panic"]
  ELSE [kind |-> "Some",
        header |-> Header_read_from(SubSeq(inner, 5, 14)),
        reader |-> [inner |-> inner, cursor |-> 14]]

\* peek_n with an off-by-one bounds check.
peek_n_strict(self, N) ==
  IF self.cursor + N >= Len(self.inner) THEN None
  ELSE Some(SubSeq(self.inner, self.cursor + 1, self.cursor + N))

peek_n(self, N) ==
  IF self.cursor + N > Len(self.inner) THEN None
  ELSE Some(SubSeq(self.inner, self.cursor + 1, self.cursor + N))

read_u8(self) ==
  LET old_cur == self.cursor
      next == [self EXCEPT !.cursor = old_cur + 1]
  IN  IF next.cursor > Len(self.inner)
      THEN [self |-> next, item |-> None]
      ELSE [self |-> next, item |-> Some(self.inner[old_cur + 1])]

read_n(self, N) ==
  LET old_cur == self.cursor
      next == [self EXCEPT !.cursor = old_cur + N]
  IN  IF next.cursor > Len(self.inner)
      THEN [self |-> next, item |-> None]
      ELSE [self |-> next, item |-> Some(SubSeq(self.inner, old_cur + 1, old_cur + N))]

\* The chunk selected by the two top bits of the tag.
masked_chunk(self, tag) ==
  LET masked_tag == BitAnd(tag, MASK_2) IN
  CASE masked_tag = INDEX -> [self |-> self, item |-> Some(Index(tag))]
    [] masked_tag = DIFF ->
         [self |-> self,
          item |-> Some(Diff(AsI8(BitAnd(Shr8(tag, 4), DIFF_MASK)) - 2,
                             AsI8(BitAnd(Shr8(tag, 2), DIFF_MASK)) - 2,
                             AsI8(BitAnd(tag, DIFF_MASK)) - 2))]
    [] masked_tag = LUMA ->
         LET second == read_u8(self) IN
         IF second.item = None THEN [self |-> second.self, item |-> None]
         ELSE LET second_byte == second.item[1] IN
              [self |-> second.self,
               item |-> Some(Luma(AsI8(BitAnd(tag, INVERSE_MASK_2)) - 32,
                                  AsI8(BitAnd(Shr8(second_byte, 4), LUMA_MASK)) - 8,
                                  AsI8(BitAnd(second_byte, LUMA_MASK)) - 8))]
    [] masked_tag = RUN ->
         [self |-> self, item |-> Some(Run(BitAnd(tag, INVERSE_MASK_2) + 1))]

\* SliceReader::next dispatching on the masked tag before it looks for the
\* RGB and RGBA tags.
SliceReader_next_masked_first(self) ==
  LET first == read_u8(self) IN
  IF first.item = None THEN [self |-> first.self, item |-> None]
  ELSE
    LET tag == first.item[1]
        rd == first.self
    IN
    IF tag = 0 /\ peek_n(rd, 7) = Some(SubSeq(BYTESTREAM_END, 2, 8)) THEN
      [self |-> rd, item |-> None]
    ELSE masked_chunk(rd, tag)

\* <SliceReader as Iterator>::next: the reader after the call and the item.
SliceReader_next(self) ==
  LET first == read_u8(self) IN
  IF first.item = None THEN [self |-> first.self, item |-> None]
  ELSE
    LET tag == first.item[1]
        rd == first.self
    IN
    IF tag = RGB THEN
      LET rest == read_n(rd, 3) IN
      IF rest.item = None THEN [self |-> rest.self, item |-> None]
      ELSE [self |-> rest.self,
            item |-> Some(Rgb(rest.item[1][1], rest.item[1][2], rest.item[1][3]))]
    ELSE IF tag = RGBA THEN
      LET rest == read_n(rd, 4) IN
      IF rest.item = None THEN [self |-> rest.self, item |-> None]
      ELSE [self |-> rest.self,
            item |-> Some(Rgba(rest.item[1][1], rest.item[1][2],
                               rest.item[1][3], rest.item[1][4]))]
    ELSE IF tag = 0 /\ peek_n(rd, 7) = Some(SubSeq(BYTESTREAM_END, 2, 8)) THEN
      [self |-> rd, item |-> None]
    ELSE masked_chunk(rd, tag)

(***************************************************************************)
(* decoder.rs: ImageDecoder                                                *)
(***************************************************************************)
\* ImageDecoder::new filling the cache with zeroed pixels, as Encoder::new
\* does.
ImageDecoder_new_zero ==
  [previously_seen |-> [i \in 0..63 |-> RgbaPixel(0, 0, 0, 0)],
   previous |-> RgbaPixel(0, 0, 0, 255),
   run |-> 0]

ImageDecoder_new ==
  [previously_seen |-> [i \in 0..63 |-> RgbaPixel(0, 0, 0, 255)],
   previous |-> RgbaPixel(0, 0, 0, 255),
   run |-> 0]

\* The chunk match of ImageDecoder::next with a Luma arm that does not add dg
\* to the red and blue channels.
chunk_pixel_luma_no_dg(self, c) ==
  CASE c.t = "Rgb" -> RgbaPixel(c.r, c.g, c.b, self.previous.a)
    [] c.t = "Rgba" -> RgbaPixel(c.r, c.g, c.b, c.a)
    [] c.t = "Index" -> self.previously_seen[c.idx]
    [] c.t = "Luma" ->
         RgbaPixel(AsU8(self.previous.r + c.dr_dg),
                   AsU8(self.previous.g + c.dg),
                   AsU8(self.previous.b + c.db_dg),
                   self.previous.a)
    [] c.t = "Diff" ->
         RgbaPixel(AsU8(self.previous.r + c.dr),
                   AsU8(self.previous.g + c.dg),
                   AsU8(self.previous.b + c.db),
                   self.previous.a)
    [] c.t = "Run" -> self.previous

\* The pixel a chunk stands for, given the decoder state.
chunk_pixel(self, c) ==
  CASE c.t = "Rgb" -> RgbaPixel(c.r, c.g, c.b, self.previous.a)
    [] c.t = "Rgba" -> RgbaPixel(c.r, c.g, c.b, c.a)
    [] c.t = "Index" -> self.previously_seen[c.idx]
    [] c.t = "Luma" ->
         RgbaPixel(AsU8(self.previous.r + (c.dr_dg + c.dg)),
                   AsU8(self.previous.g + c.dg),
                   AsU8(self.previous.b + (c.db_dg + c.dg)),
                   self.previous.a)
    [] c.t = "Diff" ->
         RgbaPixel(AsU8(self.previous.r + c.dr),
                   AsU8(self.previous.g + c.dg),
                   AsU8(self.previous.b + c.db),
                   self.previous.a)
    [] c.t = "Run" -> self.previous

\* The update of ImageDecoder::next with a Run arm that keeps the whole
\* length in the run counter.
consume_chunk_run_full(self, c) ==
  LET next_pixel == chunk_pixel(self, c)
      run == IF c.t = "Run" THEN AsU8(c.length) ELSE self.run
  IN  [self EXCEPT !.run = run,
                   !.previous = next_pixel,
                   !.previously_seen[index_position(next_pixel)] = next_pixel]

\* The decoder after consuming chunk c (every branch falls through to the
\* update of previous and of the cache; Run also sets the run counter).
consume_chunk(self, c) ==
  LET next_pixel == chunk_pixel(self, c)
      run == IF c.t = "Run" THEN AsU8(c.length - 1) ELSE self.run
  IN  [self EXCEPT !.run = run,
                   !.previous = next_pixel,
                   !.previously_seen[index_position(next_pixel)] = next_pixel]

\* <ImageDecoder as Iterator>::next over a SliceReader: the decoder and the
\* reader after the call, the chunk pulled from the reader (None when no
\* chunk was pulled or the reader returned None) and the item returned.
ImageDecoder_next(self, inner) ==
  IF self.run > 0
  THEN [self |-> [self EXCEPT !.run = self.run - 1], inner |-> inner,
        chunk |-> None, item |-> Some(self.previous)]
  ELSE LET pulled == SliceReader_next(inner) IN
       IF pulled.item = None
       THEN [self |-> self, inner |-> pulled.self, chunk |-> None, item |-> None]
       ELSE [self |-> consume_chunk(self, pulled.item[1]),
             inner |-> pulled.self,
             chunk |-> pulled.item,
             item |-> Some(chunk_pixel(self, pulled.item[1]))]

\* The decoder after it has consumed the chunks cs and yielded all their
\* pixels (the repeats of a Run only count the run counter down).
RECURSIVE decoder_after(_, _)
decoder_after(self, cs) ==
  IF cs = <<>> THEN self
  ELSE decoder_after([consume_chunk(self, Head(cs)) EXCEPT !.run = 0], Tail(cs))

\* The pixels an ImageDecoder in state self yields over a list of chunks.
RECURSIVE decode_chunks(_, _)
decode_chunks(self, cs) ==
  IF cs = <<>> THEN <<>>
  ELSE LET c == Head(cs)
           n == IF c.t = "Run" THEN c.length ELSE 1
       IN  [i \in 1..n |-> chunk_pixel(self, c)]
             \o decode_chunks([consume_chunk(self, c) EXCEPT !.run = 0], Tail(cs))

(***************************************************************************)
(* Inputs of the round-trip specification.                                 *)
(***************************************************************************)
Pixels ==
  {RgbaPixel(0, 0, 0, 255), RgbaPixel(0, 0, 0, 0), RgbaPixel(1, 1, 1, 255),
   RgbaPixel(10, 10, 10, 255), RgbaPixel(10, 10, 10, 254),
   RgbaPixel(50, 0, 0, 255)}

Headers ==
  {Header_rgba(w, 1) : w \in 0..MaxPixels} \cup {Header_rgb(258, 2)}

NoReader == [inner |-> <<>>, cursor |-> 0]
NotStarted == [kind |-> "unset"]

Init ==
  /\ pc = "new"
  /\ encoder \in {Encoder_new(h) : h \in Headers}
  /\ image = <<>>
  /\ output = <<>>
  /\ chunks = <<>>
  /\ out = <<>>
  /\ input = <<>>
  /\ started = NotStarted
  /\ reader = NoReader
  /\ decoder = ImageDecoder_new
  /\ chunk = None
  /\ item = None
  /\ pixels = <<>>
  /\ extra = 0

decVars == <<input, started, reader, decoder, chunk, item, pixels, extra>>
encVars == <<encoder, image, output, chunks, out>>

\* image_to_vec, before the loop: the magic and the header.
image_to_vec_begin ==
  /\ pc = "new"
  /\ out' = QOI_MAGIC \o Header_as_bytes(encoder.header)
  /\ pc' = "loop"
  /\ UNCHANGED <<encoder, image, output, chunks>>
  /\ UNCHANGED decVars

\* image_to_vec, one iteration of the loop over the image.
image_to_vec_pixel(pixel) ==
  /\ pc = "loop"
  /\ LET r == process_pixel(encoder, pixel) IN
       /\ encoder' = r.self
       /\ output' = r.output
       /\ chunks' = chunks \o r.output
       /\ out' = out \o write_chunks(r.output)
  /\ image' = Append(image, pixel)
  /\ UNCHANGED pc
  /\ UNCHANGED decVars

\* image_to_vec, after the loop: the terminator; the Vec is returned.
image_to_vec_end ==
  /\ pc = "loop"
  /\ out' = out \o BYTESTREAM_END
  /\ input' = out'
  /\ pc' = "file"
  /\ UNCHANGED <<encoder, image, output, chunks>>
  /\ UNCHANGED <<started, reader, decoder, chunk, item, pixels, extra>>

\* SliceReader::start(input) followed by into_decoder().
start ==
  /\ pc = "file"
  /\ LET r == SliceReader_start(input) IN
       IF r.kind = "Some"
       THEN /\ started' = [kind |-> "Some", header |-> r.header]
            /\ reader' = r.reader
            /\ decoder' = ImageDecoder_new
            /\ pc' = "decode"
       ELSE /\ started' = [kind |-> r.kind]
            /\ pc' = "failed"
            /\ UNCHANGED <<reader, decoder>>
  /\ UNCHANGED <<input, chunk, item, pixels, extra>>
  /\ UNCHANGED encVars

\* One pull on the ImageDecoder.
next ==
  /\ pc = "decode"
  /\ extra <= MaxExtraPulls
  /\ LET r == ImageDecoder_next(decoder, reader) IN
       /\ decoder' = r.self
       /\ reader' = r.inner
       /\ chunk' = r.chunk
       /\ item' = r.item
       /\ pixels' = IF r.item = None THEN pixels ELSE Append(pixels, r.item[1])
       /\ extra' = IF r.item = None \/ extra > 0 THEN extra + 1 ELSE extra
  /\ UNCHANGED <<pc, input, started>>
  /\ UNCHANGED encVars

Next ==
  \/ image_to_vec_begin
  \/ \E pixel \in Pixels : Len(image) < MaxPixels /\ image_to_vec_pixel(pixel)
  \/ image_to_vec_end
  \/ start
  \/ next

Spec == Init /\ [][Next]_vars

\* C1: decoding the bytes of an encoded image of width*height pixels yields
\* exactly the encoded pixels, in order.
C1_RoundTrip ==
  (pc = "decode" /\ extra = 1 /\ Len(image) = encoder.length) => pixels = image

(***************************************************************************)
(* Decoding arbitrary byte buffers: the buffer is a header part, the       *)
(* serialization of a list of chunks and a tail.                           *)
(***************************************************************************)
MaxChunks == 2

DecHeader == Header_rgb(258, 2)
ValidPrefix == QOI_MAGIC \o Header_as_bytes(DecHeader)
WrongMagicPrefix == <<113, 111, 105, 70>> \o Header_as_bytes(DecHeader)

DecChunks ==
  {Index(0), Index(53), Diff(1, -2, 0), Luma(-32, 7, -8), Run(3),
   Rgb(0, 0, 1), Rgba(7, 0, 0, 0)}

RECURSIVE ChunkLists(_)
ChunkLists(n) ==
  IF n = 0 THEN {<<>>}
  ELSE LET shorter == ChunkLists(n - 1) IN
       shorter \cup {Append(cs, c) : cs \in {l \in shorter : Len(l) = n - 1},
                                     c \in DecChunks}

\* A chunk stream that contains the terminator's bytes at a chunk boundary.
EmbeddedEnd ==
  <<Index(0), Index(0), Index(0), Index(0), Index(0), Index(0), Index(0),
    Index(1), Diff(1, 1, 1)>>

Tails ==
  {<<>>, BYTESTREAM_END, SubSeq(BYTESTREAM_END, 1, 7), SubSeq(BYTESTREAM_END, 1, 3),
   <<RGB, 1>>, <<RGBA, 1, 2, 3>>, <<LUMA>>, BYTESTREAM_END \o <<RUN>>}

\* The buffers handed to SliceReader::start, each with the chunk list that
\* was serialized into it.
DecInputs ==
  {[chunks |-> cs, input |-> ValidPrefix \o write_chunks(cs) \o tail] :
     cs \in ChunkLists(MaxChunks) \cup {EmbeddedEnd}, tail \in Tails}
  \cup
  {[chunks |-> <<>>, input |-> SubSeq(pre, 1, n) \o tail] :
     pre \in {ValidPrefix, WrongMagicPrefix}, n \in 0..14,
     tail \in {<<>>, BYTESTREAM_END}}

InitDec ==
  /\ pc = "file"
  /\ encoder = Encoder_new(DecHeader)
  /\ image = <<>>
  /\ output = <<>>
  /\ out = <<>>
  /\ \E i \in DecInputs : chunks = i.chunks /\ input = i.input
  /\ started = NotStarted
  /\ reader = NoReader
  /\ decoder = ImageDecoder_new
  /\ chunk = None
  /\ item = None
  /\ pixels = <<>>
  /\ extra = 0

NextDec == start \/ next

SpecDec == InitDec /\ [][NextDec]_vars

HasMagic(bytes) == Len(bytes) >= 4 /\ SubSeq(bytes, 1, 4) = QOI_MAGIC

\* C2: start on a buffer with a wrong magic returns an error value
\* (None), and so does start on a buffer with the right magic that is too
\* short for the header; no reader is produced.
C2_MalformedHeader ==
  started.kind # "unset" =>
    /\ (Len(input) >= 4 /\ ~HasMagic(input)) =>
         (started.kind = "None" /\ reader = NoReader)
    /\ (HasMagic(input) /\ Len(input) < 14) =>
         (started.kind = "None" /\ reader = NoReader)

\* C3: for every input buffer, starting the decode and pulling pixels never
\* panics.
C3_NoPanic == started.kind # "panic"

\* The chunk stream holds, at a chunk boundary, a 0x00 tag followed by the
\* terminator's trailing seven bytes.
HasEmbeddedEnd(cs) ==
  \E i \in 1..Len(cs) :
    /\ i + 7 <= Len(cs)
    /\ \A j \in i..(i + 6) : cs[j] = Index(0)
    /\ cs[i + 7] = Index(1)

Terminated == input = ValidPrefix \o write_chunks(chunks) \o BYTESTREAM_END
Unterminated == input = ValidPrefix \o write_chunks(chunks)
AtFirstEnd == pc = "decode" /\ extra = 1

RunLen == 100

InitRun ==
  /\ pc = "new"
  /\ encoder = Encoder_new(Header_rgba(RunLen, 1))
  /\ image = <<>>
  /\ output = <<>>
  /\ chunks = <<>>
  /\ out = <<>>
  /\ input = <<>>
  /\ started = NotStarted
  /\ reader = NoReader
  /\ decoder = ImageDecoder_new
  /\ chunk = None
  /\ item = None
  /\ pixels = <<>>
  /\ extra = 0

NextRun ==
  \/ image_to_vec_begin
  \/ \E pixel \in Pixels :
       /\ Len(image) < RunLen
       /\ pixel = (IF image = <<>> THEN pixel ELSE image[1])
       /\ image_to_vec_pixel(pixel)
  \/ Len(image) = RunLen /\ image_to_vec_end
  \/ start
  \/ next

SpecRun == InitRun /\ [][NextRun]_vars

RECURSIVE RunChunks(_)
RunChunks(cs) ==
  IF cs = <<>> THEN <<>>
  ELSE IF Head(cs).t = "Run" THEN <<Head(cs)>> \o RunChunks(Tail(cs))
  ELSE RunChunks(Tail(cs))

NoLongRun == \A i \in 1..Len(chunks) : chunks[i].t = "Run" => chunks[i].length \in 1..62

\* C5 as stated: RunLen (100) identical pixels encode to exactly two Run
\* chunks, of lengths 62 and RunLen - 62 (38), and to no Run longer than 62.
C5_TwoRuns ==
  /\ NoLongRun
  /\ Len(image) = RunLen => RunChunks(chunks) = <<Run(62), Run(RunLen - 62)>>

\* C5 (amended): RunLen (100) identical pixels never encode to a Run longer
\* than 62; when the pixel equals the encoder's initial previous pixel
\* {0,0,0,255} the chunks are exactly Run{62}, Run{RunLen - 62}; for any
\* other pixel the first pixel has its own non-Run chunk and the chunks are
\* that chunk, Run{62}, Run{RunLen - 63}.
C5_RunCap ==
  /\ NoLongRun
  /\ Len(image) = RunLen =>
       IF image[1] = RgbaPixel(0, 0, 0, 255)
       THEN chunks = <<Run(62), Run(RunLen - 62)>>
       ELSE /\ Len(chunks) = 3
            /\ chunks[1].t # "Run"
            /\ chunks[2] = Run(62)
            /\ chunks[3] = Run(RunLen - 63)

C5_Witness ==
  /\ Len(image) = RunLen
  /\ image[1] = RgbaPixel(0, 0, 0, 255)
  /\ chunks = <<Run(62), Run(RunLen - 62)>>
  /\ encoder.run = 0

(***************************************************************************)
(* Properties of one process_pixel call: the call is the step that         *)
(* extends image; its argument is the last element of image'.              *)
(***************************************************************************)
Processed == image' # image
Pixel == image'[Len(image')]
Cached == encoder.previously_seen[index_position(Pixel)] = Pixel
LastChunk == output'[Len(output')]
OnlyRunsBeforeLast == \A i \in 1..(Len(output') - 1) : output'[i].t = "Run"

\* The slot of the pixel holds a value that process_pixel wrote.
Written ==
  encoder.previously_seen[index_position(Pixel)]
    # Encoder_new(encoder.header).previously_seen[index_position(Pixel)]

\* C6 as stated: once pixel P has been written to encoder cache slot
\* hash(P) and is still its resident, the call process_pixel(P) emits
\* Index{hash(P)} for it.
C6_IndexWheneverCached ==
  [][(Processed /\ Cached /\ Written) =>
       (output' # <<>> /\ LastChunk = Index(index_position(Pixel)))]_vars

\* C6 (amended): when pixel P is the resident of encoder cache slot
\* hash(P) and P differs from the last pixel, process_pixel(P) emits
\* Index{hash(P)} as the chunk of P (after the pending Run, if any) and no
\* Rgb, Rgba, Diff or Luma; when P equals the last pixel the call extends the
\* run and emits no Index (only a Run chunk, or nothing).
C6_Index ==
  [][(Processed /\ Cached) =>
       IF Pixel # encoder.previous
       THEN /\ output' # <<>>
            /\ LastChunk = Index(index_position(Pixel))
            /\ OnlyRunsBeforeLast
       ELSE \A i \in 1..Len(output') : output'[i].t = "Run"]_vars

C6_Witness ==
  /\ Len(image) = 3
  /\ image[1] = RgbaPixel(1, 1, 1, 255)
  /\ image[2] = RgbaPixel(10, 10, 10, 255)
  /\ image[3] = image[1]
  /\ output = <<Index(4)>>

\* C8 as stated: whenever the pixel's alpha differs from the last pixel's
\* alpha, the chunk emitted for the pixel is Rgba with its four channels.
C8_AlphaAlwaysRgba ==
  [][(Processed /\ Pixel.a # encoder.previous.a) =>
       (output' # <<>> /\ LastChunk = Rgba(Pixel.r, Pixel.g, Pixel.b, Pixel.a))]_vars

\* C8 (amended): whenever the pixel's alpha differs from the last pixel's
\* alpha and the pixel is not the resident of its cache slot, the chunk
\* emitted for the pixel is Rgba with its four channels, whatever the colour
\* difference; when it is the resident of its cache slot the chunk is
\* Index{hash(pixel)}.
C8_AlphaRgba ==
  [][(Processed /\ Pixel.a # encoder.previous.a) =>
       /\ output' # <<>>
       /\ LastChunk = IF Cached THEN Index(index_position(Pixel))
                      ELSE Rgba(Pixel.r, Pixel.g, Pixel.b, Pixel.a)
       /\ OnlyRunsBeforeLast]_vars

C8_Witness ==
  /\ image = <<RgbaPixel(10, 10, 10, 255), RgbaPixel(10, 10, 10, 254)>>
  /\ output = <<Rgba(10, 10, 10, 254)>>

(***************************************************************************)
(* The encoder alone, over pixels on the boundaries of the Diff and Luma   *)
(* ranges.                                                                 *)
(***************************************************************************)
MaxEncPixels == 2

EncPixels ==
  {RgbaPixel(0, 0, 0, 255), RgbaPixel(0, 0, 0, 0),
   RgbaPixel(10, 10, 10, 255), RgbaPixel(10, 10, 10, 254),
   RgbaPixel(1, 1, 1, 255), RgbaPixel(254, 254, 254, 255),
   RgbaPixel(2, 1, 1, 255), RgbaPixel(1, 2, 1, 255), RgbaPixel(1, 1, 2, 255),
   RgbaPixel(253, 254, 254, 255), RgbaPixel(1, 253, 1, 255),
   RgbaPixel(1, 1, 253, 255), RgbaPixel(2, 2, 2, 255),
   RgbaPixel(38, 31, 23, 255), RgbaPixel(32, 32, 32, 255),
   RgbaPixel(224, 224, 224, 255), RgbaPixel(223, 223, 223, 255),
   RgbaPixel(13, 5, 5, 255), RgbaPixel(253, 5, 5, 255),
   RgbaPixel(252, 5, 5, 255), RgbaPixel(5, 5, 13, 255),
   RgbaPixel(5, 5, 12, 255), RgbaPixel(5, 5, 252, 255),
   RgbaPixel(40, 40, 40, 255), RgbaPixel(127, 224, 224, 255)}

InitEnc ==
  /\ pc = "new"
  /\ encoder \in {Encoder_new(Header_rgba(w, 1)) : w \in {1, MaxEncPixels}}
  /\ image = <<>>
  /\ output = <<>>
  /\ chunks = <<>>
  /\ out = <<>>
  /\ input = <<>>
  /\ started = NotStarted
  /\ reader = NoReader
  /\ decoder = ImageDecoder_new
  /\ chunk = None
  /\ item = None
  /\ pixels = <<>>
  /\ extra = 0

NextEnc ==
  \/ image_to_vec_begin
  \/ \E pixel \in EncPixels : Len(image) < MaxEncPixels /\ image_to_vec_pixel(pixel)
  \/ image_to_vec_end

SpecEnc == InitEnc /\ [][NextEnc]_vars

\* The difference of two channels as a signed 8-bit value.
SignedDelta(x, y) == ((x - y + 128) % 256) - 128

\* C7: for a pixel that differs from the last pixel, is not a cache hit
\* and keeps the last pixel's alpha, the chunk is Diff exactly when dr, dg,
\* db are all in [-2,1]; otherwise Luma exactly when dg is in [-32,31] and
\* dr-dg, db-dg are in [-8,7]; otherwise Rgb.
C7_ChunkSelection ==
  [][(Processed /\ Pixel # encoder.previous /\ ~Cached
        /\ Pixel.a = encoder.previous.a) =>
       LET dr == SignedDelta(Pixel.r, encoder.previous.r)
           dg == SignedDelta(Pixel.g, encoder.previous.g)
           db == SignedDelta(Pixel.b, encoder.previous.b)
       IN  /\ output' # <<>>
           /\ LastChunk.t =
                IF dr \in -2..1 /\ dg \in -2..1 /\ db \in -2..1 THEN "Diff"
                ELSE IF dg \in -32..31 /\ (dr - dg) \in -8..7 /\ (db - dg) \in -8..7
                     THEN "Luma"
                ELSE "Rgb"]_vars

C7_Witness ==
  /\ image = <<RgbaPixel(2, 2, 2, 255)>>
  /\ output = <<Luma(2, 0, 0)>>

\* C9: index_position(p) is (r*3 + g*5 + b*7 + a*11) mod 64, in 0..63, for
\* every pixel processed, and every pixel the encoder wrote to its cache sits
\* in the slot of that number.
ClosedHash(p) == (p.r * 3 + p.g * 5 + p.b * 7 + p.a * 11) % 64

C9_Hash ==
  /\ \A i \in 1..Len(image) :
       /\ index_position(image[i]) \in 0..63
       /\ index_position(image[i]) = ClosedHash(image[i])
  /\ \A i \in 0..63 :
       encoder.previously_seen[i] # RgbaPixel(0, 0, 0, 0) =>
         ClosedHash(encoder.previously_seen[i]) = i

C9_Witness ==
  /\ Len(image) > 0
  /\ image[Len(image)] = RgbaPixel(10, 10, 10, 254)
  /\ encoder.previously_seen[0] = RgbaPixel(10, 10, 10, 254)

(***************************************************************************)
(* The layout of the bytes image_to_vec returns.                           *)
(***************************************************************************)
Returned == pc \notin {"new", "loop"}
BigEndianAt(bytes, i) ==
  bytes[i] * 16777216 + bytes[i + 1] * 65536 + bytes[i + 2] * 256 + bytes[i + 3]

\* C10 as stated: the bytes are the 4 magic bytes, a 14-byte header, the
\* serialized chunks in emission order and the 8-byte terminator.
C10_Header14 ==
  Returned =>
    LET body == write_chunks(chunks) IN
      /\ SubSeq(out, 1, 4) = <<113, 111, 105, 102>>
      /\ Len(out) = 4 + 14 + Len(body) + 8
      /\ SubSeq(out, 19, Len(out) - 8) = body
      /\ SubSeq(out, Len(out) - 7, Len(out)) = <<0, 0, 0, 0, 0, 0, 0, 1>>

\* C10 (amended): the bytes are the 4 magic bytes "qoif", immediately
\* followed by the 10-byte header (width and height as big-endian u32, then
\* channels, then colorspace; magic and header together are 14 bytes), then
\* the serialization of every chunk emitted by process_pixel in emission
\* order, then the 8-byte terminator 00 00 00 00 00 00 00 01 and nothing
\* after it.
C10_Layout ==
  Returned =>
    LET body == write_chunks(chunks) IN
      /\ SubSeq(out, 1, 4) = <<113, 111, 105, 102>>
      /\ Len(out) = 4 + 10 + Len(body) + 8
      /\ BigEndianAt(out, 5) = encoder.header.width
      /\ BigEndianAt(out, 9) = encoder.header.height
      /\ out[13] = encoder.header.channels
      /\ out[14] = encoder.header.colorspace
      /\ SubSeq(out, 15, Len(out) - 8) = body
      /\ SubSeq(out, Len(out) - 7, Len(out)) = <<0, 0, 0, 0, 0, 0, 0, 1>>

C10_Witness ==
  /\ pc = "file"
  /\ encoder.header = Header_rgb(258, 2)
  /\ Len(chunks) >= 2
  /\ Len(out) = 14 + Len(write_chunks(chunks)) + 8

(***************************************************************************)
(* The chunk reader over serialized chunks with boundary field values and  *)
(* over raw tag bytes.                                                     *)
(***************************************************************************)
MaxRaw == 2

WireChunks ==
  {Index(0), Index(1), Index(15), Index(50), Index(53), Index(63)}
  \cup {Diff(dr, dg, db) : dr \in {-2, 1}, dg \in {-2, 1}, db \in {-2, 1}}
  \cup {Diff(0, -1, 0), Luma(0, 0, 0)}
  \cup {Luma(dg, dr_dg, db_dg) : dg \in {-32, 31}, dr_dg \in {-8, 7}, db_dg \in {-8, 7}}
  \cup {Run(1), Run(2), Run(62)}
  \cup {Rgb(0, 0, 0), Rgb(254, 255, 1), Rgba(255, 254, 0, 128), Rgba(0, 0, 0, 0)}

LeadChunks == {Rgb(255, 0, 128), Rgba(0, 255, 1, 7)}

WireLists ==
  {<<c>> : c \in WireChunks} \cup {<<l, c>> : l \in LeadChunks, c \in WireChunks}

WireTails == {<<>>, BYTESTREAM_END, SubSeq(BYTESTREAM_END, 2, 8), <<RGB, 1>>}

TagBytes == {0, 63, 64, 127, 128, 191, 192, 253, 254, 255}

RECURSIVE RawBodies(_)
RawBodies(n) ==
  IF n = 0 THEN {<<>>}
  ELSE LET shorter == RawBodies(n - 1) IN
       shorter \cup {Append(bs, b) : bs \in {l \in shorter : Len(l) = n - 1},
                                     b \in TagBytes}

WireInputs ==
  {[chunks |-> cs, input |-> ValidPrefix \o write_chunks(cs) \o tail] :
     cs \in WireLists, tail \in WireTails}
  \cup
  {[chunks |-> <<>>, input |-> ValidPrefix \o body \o tail] :
     body \in RawBodies(MaxRaw), tail \in {<<>>, <<7, 8, 9, 10>>}}

InitWire ==
  /\ pc = "file"
  /\ encoder = Encoder_new(DecHeader)
  /\ image = <<>>
  /\ output = <<>>
  /\ out = <<>>
  /\ \E i \in WireInputs : chunks = i.chunks /\ input = i.input
  /\ started = NotStarted
  /\ reader = NoReader
  /\ decoder = ImageDecoder_new
  /\ chunk = None
  /\ item = None
  /\ pixels = <<>>
  /\ extra = 0

NextWire == start \/ next

SpecWire == InitWire /\ [][NextWire]_vars

(***************************************************************************)
(* Properties of one pull on the chunk reader: the pull is the step that   *)
(* moves the reader's cursor.                                              *)
(***************************************************************************)
Pulled == pc = "decode" /\ reader' # reader
TagRead == reader.cursor < Len(reader.inner)
Tag == reader.inner[reader.cursor + 1]
Remaining == Len(reader.inner) - reader.cursor - 1
After(n) == SubSeq(reader.inner, reader.cursor + 2, reader.cursor + 1 + n)

InRange(c) ==
  CASE c.t = "Index" -> c.idx \in 0..63
    [] c.t = "Diff" -> c.dr \in -2..1 /\ c.dg \in -2..1 /\ c.db \in -2..1
    [] c.t = "Luma" -> c.dg \in -32..31 /\ c.dr_dg \in -8..7 /\ c.db_dg \in -8..7
    [] c.t = "Run" -> c.length \in 1..62
    [] c.t = "Rgb" -> c.r \in 0..255 /\ c.g \in 0..255 /\ c.b \in 0..255
    [] c.t = "Rgba" -> c.r \in 0..255 /\ c.g \in 0..255 /\ c.b \in 0..255
                         /\ c.a \in 0..255

\* C11: a tag byte 0xFE is parsed as Rgb with the 3 following bytes and
\* 0xFF as Rgba with the 4 following bytes (None when the bytes are missing),
\* never as Run; and every chunk the reader yields has its fields in range.
C11_ParseOrder ==
  [][(Pulled /\ TagRead) =>
       /\ Tag = 254 =>
            IF Remaining >= 3
            THEN /\ chunk' = Some(Rgb(After(3)[1], After(3)[2], After(3)[3]))
                 /\ reader'.cursor = reader.cursor + 4
            ELSE chunk' = None
       /\ Tag = 255 =>
            IF Remaining >= 4
            THEN /\ chunk' = Some(Rgba(After(4)[1], After(4)[2], After(4)[3],
                                       After(4)[4]))
                 /\ reader'.cursor = reader.cursor + 5
            ELSE chunk' = None
       /\ chunk' # None => InRange(chunk'[1])]_vars

C11_Witness ==
  /\ chunks = <<>>
  /\ input = ValidPrefix \o <<254, 7, 8, 9, 10>>
  /\ chunk = Some(Rgb(7, 8, 9))
  /\ reader.cursor = 18

\* The wire size of a chunk and its bytes, with the biased fields packed
\* arithmetically under the tag.
WireSize(c) ==
  CASE c.t = "Rgb" -> 4
    [] c.t = "Rgba" -> 5
    [] c.t = "Luma" -> 2
    [] OTHER -> 1

ExpectedWire(c) ==
  CASE c.t = "Rgb" -> <<254, c.r, c.g, c.b>>
    [] c.t = "Rgba" -> <<255, c.r, c.g, c.b, c.a>>
    [] c.t = "Index" -> <<c.idx>>
    [] c.t = "Diff" -> <<64 + 16 * (c.dr + 2) + 4 * (c.dg + 2) + (c.db + 2)>>
    [] c.t = "Luma" -> <<128 + (c.dg + 32), 16 * (c.dr_dg + 8) + (c.db_dg + 8)>>
    [] c.t = "Run" -> <<192 + (c.length - 1)>>

\* The offset in the input of the k-th serialized chunk.
Position(k) == Len(ValidPrefix) + Len(write_chunks(SubSeq(chunks, 1, k - 1)))

\* The tag byte under the cursor is 0x00 and the terminator's trailing 7
\* bytes follow it.
ZeroBeforeTrailing ==
  /\ Tag = 0
  /\ Remaining >= 7
  /\ After(7) = <<0, 0, 0, 0, 0, 0, 1>>

\* C12: an in-range chunk serializes to exactly its wire size (Rgb 4, Rgba 5,
\* Luma 2, others 1) with the biased fields packed under its tag, and the
\* reader positioned on those bytes yields the same chunk and advances by
\* exactly that size (unless the chunk is Index{0} followed by the
\* terminator's trailing 7 bytes).
C12_WireRoundTrip ==
  [][\A k \in 1..Len(chunks) :
       (Pulled /\ reader.cursor = Position(k) /\ ~ZeroBeforeTrailing) =>
         /\ InRange(chunks[k])
         /\ Len(impl_chunk_as_bytes(chunks[k])) = WireSize(chunks[k])
         /\ impl_chunk_as_bytes(chunks[k]) = ExpectedWire(chunks[k])
         /\ chunk' = Some(chunks[k])
         /\ reader'.cursor = reader.cursor + WireSize(chunks[k])]_vars

C12_Witness ==
  /\ chunks = <<Rgb(255, 0, 128), Luma(-32, 7, -8)>>
  /\ chunk = Some(Luma(-32, 7, -8))
  /\ reader.cursor = Len(ValidPrefix) + 6
  /\ SubSeq(input, Len(ValidPrefix) + 5, Len(ValidPrefix) + 6) = <<128, 240>>

\* C13: on a tag byte 0x00 the reader returns None exactly when the next 7
\* bytes exist and equal 00 00 00 00 00 00 01; otherwise (other bytes, or
\* fewer than 7 left) it yields Index{0} and consumes only the tag byte.
C13_ZeroByte ==
  [][(Pulled /\ TagRead /\ Tag = 0) =>
       IF Remaining >= 7 /\ After(7) = <<0, 0, 0, 0, 0, 0, 1>>
       THEN chunk' = None /\ item' = None
       ELSE /\ chunk' = Some(Index(0))
            /\ reader'.cursor = reader.cursor + 1]_vars

\* Index{0} was yielded although 7 more bytes followed the tag byte, and the
\* next pull then found the terminator in those bytes.
C13_Witness ==
  /\ chunks = <<Index(0)>>
  /\ input = ValidPrefix \o <<0>> \o BYTESTREAM_END
  /\ pixels = <<RgbaPixel(0, 0, 0, 255)>>
  /\ reader.cursor = Len(ValidPrefix) + 2
  /\ item = None

(***************************************************************************)
(* Properties of one call of ImageDecoder::next.                           *)
(***************************************************************************)
NextCalled == pc = "decode" /\ <<pixels, extra>>' # <<pixels, extra>>
RunPulled == chunk' # None /\ chunk'[1].t = "Run"
Repeats(p, n) == [i \in 1..n |-> p]

\* The input was the serialized chunks, alone or with the terminator, the
\* last chunk was a Run and the decoder has reached the end.
EndedAfterRun ==
  /\ chunks # <<>>
  /\ chunks[Len(chunks)].t = "Run"
  /\ input \in {ValidPrefix \o write_chunks(chunks),
                ValidPrefix \o write_chunks(chunks) \o BYTESTREAM_END}
  /\ extra = 1

\* C14: the pull that consumes Run{length} yields the last pixel and leaves
\* length-1 repeats pending; each following pull yields that pixel again
\* without touching the chunk reader, and the reader is only pulled when no
\* repeat is pending; in all a Run{length} that ends the stream has put
\* exactly `length` copies of the pixel before it on the output.
C14_RunExpansion ==
  [][NextCalled =>
       /\ RunPulled =>
            /\ item' = Some(decoder.previous)
            /\ decoder'.run = chunk'[1].length - 1
       /\ decoder.run > 0 =>
            /\ reader' = reader
            /\ chunk' = None
            /\ item' = Some(decoder.previous)
            /\ decoder'.run = decoder.run - 1
       /\ reader' # reader => decoder.run = 0
       /\ EndedAfterRun =>
            LET n == chunks[Len(chunks)].length
                before == Len(pixels) - n
            IN  /\ before = Len(chunks) - 1
                /\ SubSeq(pixels, before + 1, Len(pixels)) =
                     Repeats(IF before = 0 THEN ImageDecoder_new.previous
                             ELSE pixels[before], n)]_vars

C14_Witness ==
  /\ chunks = <<Rgb(255, 0, 128), Run(62)>>
  /\ input = ValidPrefix \o write_chunks(chunks) \o BYTESTREAM_END
  /\ pixels = Repeats(RgbaPixel(255, 0, 128, 255), 63)
  /\ item = None

\* C15: a Run chunk and every run-repeat pull leave the decoder's cache and
\* last pixel unchanged; every other chunk sets the last pixel to the
\* produced pixel and writes it to its cache slot, changing no other slot.
C15_DecoderFrame ==
  [][NextCalled =>
       /\ (decoder.run > 0 \/ RunPulled) =>
            /\ decoder'.previously_seen = decoder.previously_seen
            /\ decoder'.previous = decoder.previous
       /\ (chunk' # None /\ ~RunPulled) =>
            /\ decoder'.previous = item'[1]
            /\ decoder'.previously_seen =
                 [decoder.previously_seen EXCEPT ![ClosedHash(item'[1])] = item'[1]]
       /\ (chunk' = None /\ decoder.run = 0) =>
            /\ decoder'.previously_seen = decoder.previously_seen
            /\ decoder'.previous = decoder.previous]_vars

\* A Run was consumed as the very first chunk and then a non-Run chunk.
C15_Witness ==
  /\ Len(input) >= Len(ValidPrefix) + 5
  /\ SubSeq(input, Len(ValidPrefix) + 1, Len(ValidPrefix) + 2) = <<192, 127>>
  /\ pixels = <<RgbaPixel(0, 0, 0, 255), RgbaPixel(1, 1, 1, 255)>>
  /\ decoder.previous = RgbaPixel(1, 1, 1, 255)
  /\ decoder.previously_seen[ClosedHash(RgbaPixel(1, 1, 1, 255))] =
       RgbaPixel(1, 1, 1, 255)
  /\ decoder.previously_seen[53] = RgbaPixel(0, 0, 0, 255)

Mod256(i) == (i + 512) % 256

\* The pixel a chunk produces from the last pixel and the cache.
ExpectedPixel(last, cache, c) ==
  CASE c.t = "Rgb" -> [r |-> c.r, g |-> c.g, b |-> c.b, a |-> last.a]
    [] c.t = "Rgba" -> [r |-> c.r, g |-> c.g, b |-> c.b, a |-> c.a]
    [] c.t = "Index" -> cache[c.idx]
    [] c.t = "Diff" -> [r |-> Mod256(last.r + c.dr), g |-> Mod256(last.g + c.dg),
                        b |-> Mod256(last.b + c.db), a |-> last.a]
    [] c.t = "Luma" -> [r |-> Mod256(last.r + c.dr_dg + c.dg),
                        g |-> Mod256(last.g + c.dg),
                        b |-> Mod256(last.b + c.db_dg + c.dg), a |-> last.a]
    [] c.t = "Run" -> last

\* C16: Rgb produces (r,g,b) with the last pixel's alpha, Rgba the pixel as
\* given, Index the cache slot verbatim, Diff the last pixel plus dr,dg,db
\* modulo 256, Luma the last pixel plus dr_dg+dg, dg, db_dg+dg modulo 256;
\* Diff and Luma keep the last pixel's alpha.
C16_ChunkToPixel ==
  [][(NextCalled /\ chunk' # None) =>
       item' = Some(ExpectedPixel(decoder.previous, decoder.previously_seen,
                                  chunk'[1]))]_vars

\* Last r = 255 with dr = 1 wrapped to 0, last g = 0 with dg = -2 to 254.
C16_Witness ==
  /\ chunks = <<Rgb(255, 0, 128), Diff(1, -2, 1)>>
  /\ chunk = Some(Diff(1, -2, 1))
  /\ pixels = <<RgbaPixel(255, 0, 128, 255), RgbaPixel(0, 254, 129, 255)>>

(***************************************************************************)
(* Encoding long pixel sequences: up to MaxLong pixels that change value   *)
(* at most once, under headers that announce fewer, as many or more        *)
(* pixels than are processed.                                              *)
(***************************************************************************)
MaxLong == 124

LongPixels == {RgbaPixel(0, 0, 0, 255), RgbaPixel(50, 0, 0, 255)}

LongHeaders ==
  {Header_rgba(0, 1), Header_rgba(2, 1), Header_rgba(70, 1), Header_rgba(200, 1)}

InitLong ==
  /\ pc = "new"
  /\ \E header \in LongHeaders : encoder = Encoder_new(header)
  /\ image = <<>>
  /\ output = <<>>
  /\ chunks = <<>>
  /\ out = <<>>
  /\ input = <<>>
  /\ started = NotStarted
  /\ reader = NoReader
  /\ decoder = ImageDecoder_new
  /\ chunk = None
  /\ item = None
  /\ pixels = <<>>
  /\ extra = 0

NextLong ==
  \/ image_to_vec_begin
  \/ \E pixel \in LongPixels :
       /\ Len(image) < MaxLong
       /\ image # <<>> /\ image[Len(image)] # image[1] => pixel = image[Len(image)]
       /\ image_to_vec_pixel(pixel)
  \/ image_to_vec_end

SpecLong == InitLong /\ [][NextLong]_vars

\* C17: after every process_pixel call, whatever the number of pixels
\* processed against width*height, the pending run counter is in 0..61 and
\* every Run chunk emitted so far has a length in 1..62.
C17_RunCounter ==
  /\ encoder.run \in 0..61
  /\ \A i \in 1..Len(chunks) :
       chunks[i].t = "Run" => chunks[i].length \in 1..62

\* More pixels than width*height were processed, a full Run{62} was emitted
\* and 61 further repeats are pending.
C17_Witness ==
  /\ Len(image) > encoder.length
  /\ Run(62) \in {chunks[i] : i \in 1..Len(chunks)}
  /\ encoder.run = 61

C19_EncoderFrame ==
  [][Processed =>
       /\ encoder'.previous = Pixel
       /\ IF \/ Pixel = encoder.previous
             \/ (output' # <<>> /\ LastChunk.t = "Index")
          THEN encoder'.previously_seen = encoder.previously_seen
          ELSE /\ encoder'.previously_seen[ClosedHash(Pixel)] = Pixel
               /\ \A i \in 0..63 :
                    i # ClosedHash(Pixel) =>
                      encoder'.previously_seen[i] = encoder.previously_seen[i]]_vars

\* {50,0,0,255} has overwritten {10,10,10,255} in the slot they share.
C19_Witness ==
  /\ image = <<RgbaPixel(10, 10, 10, 255), RgbaPixel(50, 0, 0, 255)>>
  /\ ClosedHash(RgbaPixel(10, 10, 10, 255)) = ClosedHash(RgbaPixel(50, 0, 0, 255))
  /\ encoder.previously_seen[ClosedHash(RgbaPixel(50, 0, 0, 255))] =
       RgbaPixel(50, 0, 0, 255)
  /\ encoder.previous = RgbaPixel(50, 0, 0, 255)

\* C20: with a fresh decoder fed the encoder's chunks in order, whenever
\* process_pixel emits Index{idx} for a pixel the decoder's cache slot idx
\* holds that pixel when it consumes the chunk, and once the chunks of the
\* call are consumed the decoder's last pixel is the encoder's last pixel.
C20_LockStep ==
  [][Processed =>
       /\ \A i \in 1..Len(output') :
            output'[i].t = "Index" =>
              decoder_after(ImageDecoder_new,
                            chunks \o SubSeq(output', 1, i - 1)
                           ).previously_seen[output'[i].idx] = Pixel
       /\ decoder_after(ImageDecoder_new, chunks').previous = encoder'.previous]_vars

\* C21: once a pull has returned None (at the terminator, on an exhausted
\* buffer or on a truncated chunk), every later pull pulls no chunk and
\* returns None, so no further pixel is yielded.
C21_StickyEnd ==
  [][(NextCalled /\ extra >= 1) =>
       /\ chunk' = None
       /\ item' = None
       /\ pixels' = pixels]_vars

\* The number of pixels a list of chunks stands for.
RECURSIVE PixelCount(_)
PixelCount(cs) ==
  IF cs = <<>> THEN 0
  ELSE (IF Head(cs).t = "Run" THEN Head(cs).length ELSE 1) + PixelCount(Tail(cs))

\* C22: the pixels the emitted chunks stand for (length for a Run, 1 for any
\* other chunk) plus the pending run counter are the pixels processed; so
\* when width*height (> 0) pixels have been processed the counter is 0 and
\* the chunks stand for exactly width*height pixels.
C22_Conservation ==
  /\ PixelCount(chunks) + encoder.run = Len(image)
  /\ encoder.index = Len(image)
  /\ (encoder.length > 0 /\ Len(image) = encoder.length) =>
       /\ encoder.run = 0
       /\ PixelCount(chunks) = encoder.length

\* A 70-pixel image ended on a run that was flushed by the last pixel, after
\* a run that was flushed by the cap.
C22_Witness ==
  /\ encoder.length = 70
  /\ Len(image) = 70
  /\ image[70] # image[1]
  /\ Len(chunks) = 3
  /\ chunks[1] = Run(62)
  /\ chunks[2].t # "Run"
  /\ chunks[3] = Run(7)
  /\ encoder.run = 0

\* The offset in image_to_vec's bytes of the k-th emitted chunk; the offset
\* of the terminator for k = Len(chunks) + 1.
Offset(k) == Len(QOI_MAGIC) + 10 + Len(write_chunks(SubSeq(chunks, 1, k - 1)))

\* The 8 bytes at offset off of bytes are the terminator.
TerminatorAt(bytes, off) ==
  /\ off + 8 <= Len(bytes)
  /\ SubSeq(bytes, off + 1, off + 8) = BYTESTREAM_END

\* C23: the encoder never emits two consecutive Index{0} chunks; no emitted
\* chunk starts with a 0x00 tag followed by 00 00 00 00 00 00 01; and the
\* chunk reader on image_to_vec's bytes yields the emitted chunks one by one,
\* each from its own offset, and returns None only at the terminator.
C23_NoPrematureEnd ==
  [][/\ \A i \in 1..(Len(chunks) - 1) :
          ~(chunks[i] = Index(0) /\ chunks[i + 1] = Index(0))
     /\ \A k \in 1..Len(chunks) : ~TerminatorAt(out, Offset(k))
     /\ (Pulled /\ extra = 0) =>
          \E k \in 1..(Len(chunks) + 1) :
            /\ reader.cursor = Offset(k)
            /\ IF k <= Len(chunks)
               THEN /\ chunk' = Some(chunks[k])
                    /\ reader'.cursor = Offset(k + 1)
               ELSE /\ chunk' = None
                    /\ item' = None]_vars

\* The bytes of an image whose last chunk is Index{0}, directly before the
\* terminator, were read to the end.
C23_Witness ==
  /\ image = <<RgbaPixel(0, 0, 0, 0), RgbaPixel(1, 1, 1, 255), RgbaPixel(0, 0, 0, 0)>>
  /\ chunks = <<Index(0), Rgba(1, 1, 1, 255), Index(0)>>
  /\ input = QOI_MAGIC \o Header_as_bytes(Header_rgba(3, 1))
               \o <<0, 255, 1, 1, 1, 255, 0>> \o BYTESTREAM_END
  /\ pc = "decode"
  /\ Len(pixels) = 3
  /\ reader.cursor = Offset(4) + 1
  /\ item = None
====
